---- MODULE Spec2Model ----
(***************************************************************************)
(* Model of src/bot.py: the polling worker (main_loop / post_news), the    *)
(* two feed readers, the per-article delivery, the ledger posted_col, the  *)
(* feed registry feeds_col and the two commands that change it.            *)
(*                                                                         *)
(* The worker is one asyncio task.  pc is its position; the positions in   *)
(* Suspended are the awaits at which command handlers can run.  sent is    *)
(* the destination chat: one entry per delivered message, in order.        *)
(* pc = "dead" is the worker task ended by an exception.                   *)
(*                                                                         *)
(* Spec is the running program.  CallSpec applies scrape_article, the      *)
(* summary cap and fetch_newsonair_articles on their own to pages drawn    *)
(* in its initial states.                                                  *)
(***************************************************************************)
EXTENDS Integers, Sequences, FiniteSets, TLC

\* ---------------------------------------------------------------- bounds
MaxEntries == 2      \* entries of one fetched feed document
MaxPasses == 2       \* passes started, over all processes
MaxCmds == 1         \* commands that changed the registry
MaxSent == 2         \* messages delivered overall
MaxImgTags == 2      \* image sources found in one article page

\* ------------------------------------------------------------- constants
MaxImages == 3       \* valid_imgs[:3]
NewsOnAirCap == 8    \* articles[:8]

Urls == {"u1", "u2"}                 \* article links
Imgs == {"i1"}                       \* image sources of an article page
NewsOnAirUrl == "https://www.newsonair.gov.in/hi/"
RssUrl == "https://rss/1.xml"
ExtraUrl == "https://rss/2.xml"
FeedUrls == {RssUrl, NewsOnAirUrl, ExtraUrl}
NewsOnAirName == "News On Air Hindi"
FeedNames == {"Custom"}              \* names given with /addfeed

default_feeds ==
    << [url |-> RssUrl, name |-> "Breaking News"],
       [url |-> NewsOnAirUrl, name |-> NewsOnAirName] >>

SeqsUpTo(S, n) == UNION {[1..k -> S] : k \in 0..n}

\* What reading a feed url gives: the reader raised, or the links of the
\* document's entries (cards) that carry a link, in document order.
FetchError == [ok |-> FALSE, entries |-> << >>]
Docs == {FetchError} \cup [ok : {TRUE}, entries : SeqsUpTo(Urls, MaxEntries)]

VARIABLES
    feeds_col,    \* durable: registry, sequence of [url, name] in insertion order
    posted_col,   \* durable: ledger, number of documents per article url
    sent,         \* destination: the messages delivered so far
    feedMark,     \* Len(sent) when the feed in progress was fetched
    artMark,      \* Len(sent) when the article in progress was scraped
    pc,           \* position of the worker task
    feeds,        \* post_news: snapshot of the registry
    fi,           \* post_news: index of the feed in progress (1-based)
    fetches,      \* indexes of the feeds fetched so far in the pass in progress
    feed_data,    \* fetch_feed_entries: the document read for the feed in progress
    fetch_ok,     \* fetch_feed_entries: the reader did not raise
    articles,     \* post_news: candidates of the feed in progress
    ai,           \* post_news: index of the candidate in progress (1-based)
    video_url,    \* scrape result: a video url was found
    vid_data,     \* the video downloaded
    image_urls,   \* scrape result: image sources
    idx,          \* enumerate(image_urls), 1-based
    images,       \* media group under construction
    active,       \* post_news coroutines in progress in this process
    passNo,       \* passes started so far, over all processes
    passLedger,   \* urls in the ledger when the pass in progress started
    bootLedger,   \* urls in the ledger when this process started
    cmds,         \* commands that changed the registry so far
    call          \* one function of the program applied on its own: [fn, arg, ret, returned]

vars == << feeds_col, posted_col, sent, feedMark, artMark, pc, feeds, fi, fetches,
           feed_data, fetch_ok, articles, ai,
           video_url, vid_data, image_urls, idx, images, active, passNo,
           passLedger, bootLedger, cmds, call >>

durable == << feeds_col, posted_col >>
locals == << feeds, fi, fetches, feed_data, fetch_ok, articles, ai, feedMark >>
media == << video_url, vid_data, image_urls, idx, images, artMark >>
ghosts == << passLedger, bootLedger >>

\* No function of the program is applied on its own.
NoCall == [fn |-> "none", arg |-> << >>, ret |-> << >>, returned |-> FALSE]

Posted(u) == posted_col[u] > 0
PostedUrls == {u \in Urls : Posted(u)}

HasFeed(col, url) == \E i \in DOMAIN col : col[i].url = url

RECURSIVE EnsureDefaults(_, _)
EnsureDefaults(col, defs) ==
    IF defs = << >> THEN col
    ELSE EnsureDefaults(IF HasFeed(col, Head(defs).url) THEN col
                        ELSE Append(col, Head(defs)),
                        Tail(defs))

IsNewsOnAir(url) == url = NewsOnAirUrl

Head8(s) == SubSeq(s, 1, IF Len(s) < NewsOnAirCap THEN Len(s) ELSE NewsOnAirCap)

ToArticles(links, name) ==
    [i \in DOMAIN links |-> [url |-> links[i], source_name |-> name]]

Unposted(link) == ~Posted(link)

fetch_newsonair_articles_unfiltered(doc) ==
    IF doc = FetchError THEN << >>
    ELSE Head8(ToArticles(doc.entries, NewsOnAirName))

fetch_newsonair_articles(doc) ==
    IF doc = FetchError THEN << >>
    ELSE Head8(ToArticles(SelectSeq(doc.entries, Unposted), NewsOnAirName))

RECURSIVE Reverse(_)
Reverse(q) == IF q = << >> THEN << >> ELSE Append(Reverse(Tail(q)), Head(q))

fetch_rss_entries_unfiltered(feed, doc) ==
    IF doc = FetchError THEN << >>
    ELSE ToArticles(doc.entries, feed.name)

fetch_rss_entries_reversed(feed, doc) ==
    IF doc = FetchError THEN << >>
    ELSE ToArticles(Reverse(SelectSeq(doc.entries, Unposted)), feed.name)

fetch_rss_entries(feed, doc) ==
    IF doc = FetchError THEN << >>
    ELSE ToArticles(SelectSeq(doc.entries, Unposted), feed.name)

fetch_feed_entries(feed, doc) ==
    IF IsNewsOnAir(feed.url) THEN fetch_newsonair_articles(doc)
    ELSE fetch_rss_entries(feed, doc)

\* What scrape_article returns to post_news: title found or not, video url
\* found or not, at most MaxImages image sources (named by Imgs; a source can
\* occur twice).  scrape_article below computes the result from a page.
ScrapeResults ==
    {[title |-> FALSE, video |-> FALSE, imgs |-> << >>]} \cup
    [title : {TRUE}, video : BOOLEAN,
     imgs : SeqsUpTo(Imgs, IF MaxImgTags < MaxImages THEN MaxImgTags ELSE MaxImages)]

\* Locals that no later statement reads are set back to their initial values;
\* the code leaves them stale until the next assignment.
NoMedia ==
    /\ video_url' = FALSE /\ vid_data' = FALSE /\ image_urls' = << >>
    /\ idx' = 0 /\ images' = << >> /\ artMark' = 0

NoFeed ==
    /\ feed_data' = << >> /\ fetch_ok' = TRUE /\ articles' = << >> /\ ai' = 0
    /\ feedMark' = 0

\* The awaits of the worker task, and the state in which the task has ended:
\* run_polling goes on serving commands without it.
Suspended ==
    {"dl_video", "send_video", "dl_image", "send_group", "send_text", "sleep", "dead"}

Init ==
    /\ feeds_col = EnsureDefaults(<< >>, default_feeds)
    /\ posted_col = [u \in Urls |-> 0]
    /\ sent = << >> /\ feedMark = 0 /\ artMark = 0
    /\ pc = "loop"
    /\ feeds = << >> /\ fi = 0 /\ fetches = << >>
    /\ feed_data = << >> /\ fetch_ok = TRUE /\ articles = << >> /\ ai = 0
    /\ video_url = FALSE /\ vid_data = FALSE /\ image_urls = << >>
    /\ idx = 0 /\ images = << >>
    /\ active = 0 /\ passNo = 0
    /\ passLedger = {} /\ bootLedger = {}
    /\ cmds = 0
    /\ call = NoCall

\* ------------------------------------------------------------- main_loop
LoopReady_nosleep == pc \in {"loop", "sleep"}

LoopReady == pc = "loop"

\* The list the for loop of line 161 runs over: the local list made at line
\* 160, not the collection.
PassFeeds_live == feeds_col

PassFeeds == feeds

StartPass ==
    /\ LoopReady
    /\ passNo < MaxPasses
    /\ feeds' = feeds_col
    /\ fi' = 1
    /\ fetches' = << >>
    /\ pc' = "feed"
    /\ active' = active + 1
    /\ passNo' = passNo + 1
    /\ passLedger' = PostedUrls
    /\ UNCHANGED << durable, sent, feed_data, fetch_ok, articles, ai, feedMark, media,
                    bootLedger, cmds, call >>

EndPass ==
    /\ pc = "feed"
    /\ fi > Len(PassFeeds)
    /\ pc' = "sleep"
    /\ active' = active - 1
    /\ feeds' = << >>
    /\ fi' = 0
    /\ fetches' = << >>
    /\ passLedger' = {}
    /\ UNCHANGED << durable, sent, feed_data, fetch_ok, articles, ai, feedMark, media,
                    passNo, bootLedger, cmds, call >>

Wake ==
    /\ pc = "sleep"
    /\ pc' = "loop"
    /\ UNCHANGED << durable, sent, locals, media, active, passNo, ghosts, cmds, call >>

\* ------------------------------------------------------------- post_news
\* feeds_col.find raises (line 160): no try encloses the call, neither in
\* post_news nor in main_loop, so the exception ends the worker task.
ListFeedsFails ==
    /\ LoopReady
    /\ passNo < MaxPasses
    /\ pc' = "dead"
    /\ UNCHANGED << durable, sent, locals, media, active, passNo, ghosts, cmds, call >>

\* Where the worker goes after the reader returned: into the loop over the
\* candidates (line 166), also when the reader raised and returned [].
AfterFetch_retry(doc) == IF doc.ok THEN "article" ELSE "feed"

AfterFetch(doc) == "article"

FetchFeed ==
    /\ pc = "feed"
    /\ fi <= Len(PassFeeds)
    /\ \E doc \in Docs :
          /\ feed_data' = doc.entries
          /\ fetch_ok' = doc.ok
          /\ articles' = fetch_feed_entries(PassFeeds[fi], doc)
          /\ pc' = AfterFetch(doc)
    /\ fetches' = Append(fetches, fi)
    /\ ai' = 1
    /\ feedMark' = Len(sent)
    /\ UNCHANGED << durable, sent, feeds, fi, media, active, passNo, ghosts, cmds, call >>

FeedDone ==
    /\ pc = "article"
    /\ ai > Len(articles)
    /\ fi' = fi + 1
    /\ pc' = "feed"
    /\ NoFeed
    /\ UNCHANGED << durable, sent, feeds, fetches, media, active, passNo, ghosts, cmds, call >>

FirstStep(video, imgs) ==
    IF video THEN "dl_video"
    ELSE IF imgs # << >> THEN "dl_image"
    ELSE "send_text"

ScrapeArticle ==
    /\ pc = "article"
    /\ ai <= Len(articles)
    /\ \E r \in ScrapeResults :
          IF ~r.title
          THEN /\ ai' = ai + 1
               /\ UNCHANGED << pc, media >>
          ELSE /\ video_url' = r.video
               /\ image_urls' = r.imgs
               /\ vid_data' = FALSE
               /\ idx' = 1
               /\ images' = << >>
               /\ artMark' = Len(sent)
               /\ pc' = FirstStep(r.video, r.imgs)
               /\ ai' = ai
    /\ UNCHANGED << durable, sent, feeds, fetches, fi, feed_data, fetch_ok, articles,
                    feedMark, active, passNo, ghosts, cmds, call >>

\* Where the if / elif / else chain of lines 173-198 leaves the worker after a
\* send that returned: at the insert of line 200.
AfterSend_fallthrough(shape) ==
    IF shape # "video" THEN "record"
    ELSE IF image_urls # << >> THEN "dl_image"
    ELSE "send_text"

AfterSend(shape) == "record"

Entry(shape, caps) ==
    [url |-> articles[ai].url, shape |-> shape, caps |-> caps]

\* A send call: the message is delivered, or the call raises and the except
\* of the feed's try (line 202) ends the feed.
Send(at, shape, caps) ==
    /\ pc = at
    /\ Len(sent) < MaxSent
    /\ \E ok \in BOOLEAN :
          IF ok
          THEN /\ sent' = Append(sent, Entry(shape, caps))
               /\ pc' = AfterSend(shape)
               /\ UNCHANGED << fi, feed_data, fetch_ok, articles, ai, feedMark, media >>
          ELSE /\ sent' = sent
               /\ pc' = "feed"
               /\ fi' = fi + 1
               /\ NoFeed
               /\ NoMedia
    /\ UNCHANGED << durable, feeds, fetches, active, passNo, ghosts, cmds, call >>

DownloadVideo ==
    /\ pc = "dl_video"
    /\ \E ok \in BOOLEAN :
          /\ vid_data' = ok
          /\ pc' = IF ok THEN "send_video" ELSE "record"
    /\ UNCHANGED << durable, sent, locals, video_url, image_urls, idx, images, artMark,
                    active, passNo, ghosts, cmds, call >>

SendVideo == Send("send_video", "video", << TRUE >>)

Caption(i) == i = 1

DownloadImage ==
    /\ pc = "dl_image"
    /\ \E ok \in BOOLEAN :
          /\ images' = IF ok THEN Append(images, [idx |-> idx, caption |-> Caption(idx)])
                       ELSE images
          /\ idx' = idx + 1
          /\ pc' = IF idx < Len(image_urls) THEN "dl_image"
                   ELSE IF images' # << >> THEN "send_group"
                   ELSE "record"
    /\ UNCHANGED << durable, sent, locals, video_url, vid_data, image_urls, artMark,
                    active, passNo, ghosts, cmds, call >>

SendMediaGroup ==
    Send("send_group", "group", [i \in DOMAIN images |-> images[i].caption])

SendMessage == Send("send_text", "text", << TRUE >>)

Record ==
    /\ pc = "record"
    /\ posted_col' = [posted_col EXCEPT ![articles[ai].url] = @ + 1]
    /\ ai' = ai + 1
    /\ pc' = "article"
    /\ NoMedia
    /\ UNCHANGED << feeds_col, sent, feeds, fetches, fi, feed_data, fetch_ok, articles,
                    feedMark, active, passNo, ghosts, cmds, call >>

\* posted_col.insert_one raises (line 200): the except of the feed's try
\* (line 202) ends the feed.
RecordFails ==
    /\ pc = "record"
    /\ pc' = "feed"
    /\ fi' = fi + 1
    /\ NoFeed
    /\ NoMedia
    /\ UNCHANGED << durable, sent, feeds, fetches, active, passNo, ghosts, cmds, call >>

\* -------------------------------------------------------------- commands
AddFeed ==
    /\ pc \in Suspended
    /\ cmds < MaxCmds
    /\ \E url \in FeedUrls, name \in FeedNames \cup {""}, title \in FeedNames \cup {""} :
          LET n == IF name # "" THEN name ELSE IF title # "" THEN title ELSE url
          IN IF HasFeed(feeds_col, url)
             THEN UNCHANGED << feeds_col, cmds >>
             ELSE /\ feeds_col' = Append(feeds_col, [url |-> url, name |-> n])
                  /\ cmds' = cmds + 1
    /\ UNCHANGED << posted_col, sent, pc, locals, media, active, passNo, ghosts, call >>

RECURSIVE DeleteOne(_, _)
DeleteOne(col, url) ==
    IF col = << >> THEN << >>
    ELSE IF Head(col).url = url THEN Tail(col)
    ELSE << Head(col) >> \o DeleteOne(Tail(col), url)

RemoveFeed ==
    /\ pc \in Suspended
    /\ cmds < MaxCmds
    /\ \E url \in FeedUrls :
          IF HasFeed(feeds_col, url)
          THEN /\ feeds_col' = DeleteOne(feeds_col, url)
               /\ cmds' = cmds + 1
          ELSE UNCHANGED << feeds_col, cmds >>
    /\ UNCHANGED << posted_col, sent, pc, locals, media, active, passNo, ghosts, call >>

\* --------------------------------------------------------------- restart
\* The process dies at any point and is started again: the module body runs
\* (lines 20-44), the worker starts at the top of main_loop, the store and
\* the destination keep what they hold.
Restart_volatile ==
    /\ feeds_col' = EnsureDefaults(feeds_col, default_feeds)
    /\ posted_col' = [u \in Urls |-> 0]
    /\ bootLedger' = PostedUrls
    /\ pc' = "loop"
    /\ feeds' = << >> /\ fi' = 0 /\ fetches' = << >>
    /\ feed_data' = << >> /\ fetch_ok' = TRUE /\ articles' = << >> /\ ai' = 0
    /\ video_url' = FALSE /\ vid_data' = FALSE /\ image_urls' = << >>
    /\ idx' = 0 /\ images' = << >>
    /\ feedMark' = 0 /\ artMark' = 0
    /\ active' = 0
    /\ passLedger' = {}
    /\ UNCHANGED << sent, passNo, cmds, call >>

Restart ==
    /\ feeds_col' = EnsureDefaults(feeds_col, default_feeds)
    /\ posted_col' = posted_col
    /\ bootLedger' = PostedUrls
    /\ pc' = "loop"
    /\ feeds' = << >> /\ fi' = 0 /\ fetches' = << >>
    /\ feed_data' = << >> /\ fetch_ok' = TRUE /\ articles' = << >> /\ ai' = 0
    /\ video_url' = FALSE /\ vid_data' = FALSE /\ image_urls' = << >>
    /\ idx' = 0 /\ images' = << >>
    /\ feedMark' = 0 /\ artMark' = 0
    /\ active' = 0
    /\ passLedger' = {}
    /\ UNCHANGED << sent, passNo, cmds, call >>

Next ==
    \/ StartPass
    \/ ListFeedsFails
    \/ EndPass
    \/ Wake
    \/ FetchFeed
    \/ FeedDone
    \/ ScrapeArticle
    \/ DownloadVideo
    \/ SendVideo
    \/ DownloadImage
    \/ SendMediaGroup
    \/ SendMessage
    \/ Record
    \/ RecordFails
    \/ AddFeed
    \/ RemoveFeed
    \/ Restart

Spec == Init /\ [][Next]_vars

\* ------------------------------------------- functions applied on their own
\* A string is modelled as the sequence of its characters where the code
\* looks into it (image sources, summaries), and as the sequence of the
\* pieces it is concatenated from where the code only prefixes it (links).
MaxTags == 4         \* img tags of a page given to scrape_article
MaxOver == 2         \* characters of a raw summary beyond the cap
MaxShort == 3        \* cards of a page with cards of every kind
MaxCards == 9        \* cards of a page of listed cards only

SummaryCap == 900    \* len(summary) > 900, summary[:900]

None == "None"

Upper ==
    << "A", "B", "C", "D", "E", "F", "G", "H", "I", "J", "K", "L", "M",
       "N", "O", "P", "Q", "R", "S", "T", "U", "V", "W", "X", "Y", "Z" >>
Lower ==
    << "a", "b", "c", "d", "e", "f", "g", "h", "i", "j", "k", "l", "m",
       "n", "o", "p", "q", "r", "s", "t", "u", "v", "w", "x", "y", "z" >>

LowerChar(c) ==
    IF \E i \in DOMAIN Upper : Upper[i] = c
    THEN Lower[CHOOSE i \in DOMAIN Upper : Upper[i] = c]
    ELSE c

lower(url) == [i \in DOMAIN url |-> LowerChar(url[i])]

Contains(str, k) ==
    \E i \in 1..(Len(str) - Len(k) + 1) : SubSeq(str, i, i + Len(k) - 1) = k

EndsWith(str, k) ==
    Len(str) >= Len(k) /\ SubSeq(str, Len(str) - Len(k) + 1, Len(str)) = k

bad_keywords ==
    {  << "l", "o", "g", "o" >>,
       << "b", "a", "n", "n", "e", "r" >>,
       << "i", "c", "o", "n" >>,
       << "s", "p", "r", "i", "t", "e" >>,
       << "a", "d", "s" >>,
       << "a", "d", "v", "e", "r", "t" >>,
       << "f", "a", "v", "i", "c", "o", "n" >>,
       << "p", "l", "a", "c", "e", "h", "o", "l", "d", "e", "r" >>,
       << "g", "i", "f" >>  }

bad_suffixes == { << ".", "g", "i", "f" >>, << ".", "s", "v", "g" >> }

is_valid_image(url) ==
    /\ url # << >>
    /\ \A k \in bad_keywords : ~Contains(lower(url), k)
    /\ \A k \in bad_suffixes : ~EndsWith(lower(url), k)

HasSrc(src) == src # << >>

Take(q, n) == SubSeq(q, 1, IF Len(q) < n THEN Len(q) ELSE n)

\* Lines 97-99: the sources of the img tags that have one, the valid ones of
\* them, the first three of those.
main_images(srcs) == Take(SelectSeq(SelectSeq(srcs, HasSrc), is_valid_image), MaxImages)

\* The image sources of the pages: http://s/a.png, /a.png, /LOGO.png, /c.svg,
\* and an img tag without src.
SrcAbs == << "h", "t", "t", "p", ":", "/", "/", "s", "/", "a", ".", "p", "n", "g" >>
SrcRel == << "/", "a", ".", "p", "n", "g" >>
SrcLogo == << "/", "L", "O", "G", "O", ".", "p", "n", "g" >>
SrcSvg == << "/", "c", ".", "s", "v", "g" >>
ImgSrcs == {SrcAbs, SrcRel, SrcLogo, SrcSvg, << >>}

\* What requests.get and the parse give for an article url: the request
\* raised, or a response with a status and a body, of which the og:title
\* content, the text of the title element (None: no such element), the img
\* sources and the og:video content matter here.
Pages ==
    [raises : BOOLEAN, status : {200, 404}, og_title : {None, "T"},
     doc_title : {None, "", "T"}, srcs : SeqsUpTo(ImgSrcs, MaxTags), og_video : BOOLEAN]

ScrapeFailed == [title |-> None, main_images |-> << >>, video_url |-> FALSE]

\* The summary is left out of the result: cap_summary models its cap.
scrape_article(page) ==
    IF page.raises THEN ScrapeFailed
    ELSE IF page.og_title = None /\ page.doc_title = None THEN ScrapeFailed
    ELSE [title |-> IF page.og_title # None THEN page.og_title ELSE page.doc_title,
          main_images |-> main_images(page.srcs),
          video_url |-> page.og_video]

Ellipsis == << ".", ".", "." >>

Spaces(str) == {i \in DOMAIN str : str[i] = " "}

\* str.rsplit(" ", 1)[0]: what stands before the last space, the whole string
\* when it has no space.
RSplitHead(str) ==
    IF Spaces(str) = {} THEN str
    ELSE SubSeq(str, 1, (CHOOSE i \in Spaces(str) : \A j \in Spaces(str) : j <= i) - 1)

cap_summary(summary) ==
    IF Len(summary) > SummaryCap
    THEN RSplitHead(Take(summary, SummaryCap)) \o Ellipsis
    ELSE summary

Text(n, spaces) == [i \in 1..n |-> IF i \in spaces THEN " " ELSE "x"]

Summaries ==
    {Text(n, sp) : n \in {0, 1} \cup ((SummaryCap - 1)..(SummaryCap + MaxOver)),
                   sp \in {{}, {1}, {SummaryCap \div 2}, {SummaryCap - 1}, {SummaryCap},
                           {SummaryCap + 1}}}

NewsOnAirHost == "https://www.newsonair.gov.in"

StartsWithHttp(link) == link # << >> /\ Head(link) = NewsOnAirHost

Absolute(link) == IF StartsWithHttp(link) THEN link ELSE << NewsOnAirHost >> \o link

\* The absolute url that each name in Urls stands for on the News On Air site.
ArticleUrl(u) == << NewsOnAirHost, IF u = "u1" THEN "/n1" ELSE "/n2" >>

UrlOf(link) == CHOOSE u \in Urls : ArticleUrl(u) = link

Card(href, title) == [link_tag |-> TRUE, href |-> href, title |-> title]

ListedCards == {Card(<< "/n1" >>, "t"), Card(<< "/n2" >>, "t")}

CardKinds ==
    ListedCards \cup
    {Card(<< NewsOnAirHost, "/n1" >>, "t"), Card(<< "/n1" >>, ""),
     [link_tag |-> FALSE, href |-> << >>, title |-> "t"]}

CardPages ==
    {[raises |-> TRUE, cards |-> << >>]} \cup
    [raises : {FALSE}, cards : SeqsUpTo(CardKinds, MaxShort) \cup SeqsUpTo(ListedCards, MaxCards)]

HasLinkAndTitle(card) == card.link_tag /\ card.title # ""

\* Lines 119-130 without the ledger check: the absolute links of the cards
\* that have a link and a title, in page order.
card_links(cards) ==
    LET kept == SelectSeq(cards, HasLinkAndTitle)
    IN [i \in DOMAIN kept |-> UrlOf(Absolute(kept[i].href))]

NewsOnAirDoc(page) ==
    IF page.raises THEN FetchError
    ELSE [ok |-> TRUE, entries |-> card_links(page.cards)]

Calls ==
    [fn : {"scrape_article"}, arg : Pages, ret : {<< >>}, returned : {FALSE}] \cup
    [fn : {"cap_summary"}, arg : Summaries, ret : {<< >>}, returned : {FALSE}] \cup
    [fn : {"fetch_newsonair_articles"}, arg : CardPages, ret : {<< >>}, returned : {FALSE}]

program ==
    << feeds_col, posted_col, sent, feedMark, artMark, pc, feeds, fi, fetches,
       feed_data, fetch_ok, articles, ai, video_url, vid_data, image_urls, idx, images,
       active, passNo, passLedger, bootLedger, cmds >>

InitCall ==
    /\ feeds_col = EnsureDefaults(<< >>, default_feeds)
    /\ posted_col \in [Urls -> {0, 1}]
    /\ sent = << >> /\ feedMark = 0 /\ artMark = 0
    /\ pc = "loop"
    /\ feeds = << >> /\ fi = 0 /\ fetches = << >>
    /\ feed_data = << >> /\ fetch_ok = TRUE /\ articles = << >> /\ ai = 0
    /\ video_url = FALSE /\ vid_data = FALSE /\ image_urls = << >>
    /\ idx = 0 /\ images = << >>
    /\ active = 0 /\ passNo = 0
    /\ passLedger = {} /\ bootLedger = {}
    /\ cmds = 0
    /\ call \in Calls

Return(value) ==
    /\ ~call.returned
    /\ call' = [call EXCEPT !.ret = value, !.returned = TRUE]
    /\ UNCHANGED program

CallScrapeArticle ==
    /\ call.fn = "scrape_article"
    /\ Return(scrape_article(call.arg))

CallCapSummary ==
    /\ call.fn = "cap_summary"
    /\ Return(cap_summary(call.arg))

CallFetchNewsOnAir ==
    /\ call.fn = "fetch_newsonair_articles"
    /\ Return(fetch_newsonair_articles(NewsOnAirDoc(call.arg)))

NextCall ==
    \/ CallScrapeArticle
    \/ CallCapSummary
    \/ CallFetchNewsOnAir

CallSpec == InitCall /\ [][NextCall]_vars

\* ================================================================ claims
SendPcs == {"send_video", "send_group", "send_text"}
InArticle == {"dl_video", "dl_image", "record"} \cup SendPcs
InFeed == {"article"} \cup InArticle

Delivers == Len(sent') = Len(sent) + 1
SendFails == pc \in SendPcs /\ pc' = "feed"
Deliveries(u) == {i \in DOMAIN sent : sent[i].url = u}
UrlsOf(q) == [i \in DOMAIN q |-> q[i].url]
SentInArticle == Len(sent) - artMark
SentInFeed == SubSeq(sent, feedMark + 1, Len(sent))
Range(q) == {q[i] : i \in DOMAIN q}

RECURSIVE IsSubseq(_, _)
IsSubseq(a, b) ==
    IF a = << >> THEN TRUE
    ELSE IF b = << >> THEN FALSE
    ELSE IF Head(a) = Head(b) THEN IsSubseq(Tail(a), Tail(b))
    ELSE IsSubseq(a, Tail(b))

\* C1: no article url is delivered to the destination more than once.
C1_NoUrlDeliveredTwice ==
    \A u \in Urls : Cardinality(Deliveries(u)) <= 1

\* C2: when the processing of an article completes, its url is in the ledger;
\* a url in the ledger stays there; and a pass delivers no url that was in the
\* ledger when the pass started, whatever the feeds list.
C2_SeenAfterSuccess ==
    [][ /\ (pc = "record" /\ pc' = "article") => posted_col'[articles[ai].url] > 0
        /\ \A u \in Urls : posted_col[u] > 0 => posted_col'[u] > 0
        /\ Delivers => sent'[Len(sent')].url \notin passLedger ]_vars

\* C2 witness: the second pass read a document that still lists a url delivered
\* and recorded before the pass started, and dropped it from the candidates.
C2_Witness ==
    /\ passNo = 2
    /\ pc = "article"
    /\ \E u \in passLedger :
          /\ Deliveries(u) # {}
          /\ u \in Range(feed_data)
          /\ u \notin Range(UrlsOf(articles))

\* C3: a process delivers no url that was in the ledger when the process
\* started.
C3_RestartDurability ==
    [][ Delivers => sent'[Len(sent')].url \notin bootLedger ]_vars

\* C3 witness: after a restart, the pass read a document that lists a url
\* recorded before the restart and dropped it from the candidates.
C3_Witness ==
    /\ pc = "article"
    /\ \E u \in bootLedger :
          /\ u \in Range(feed_data)
          /\ u \notin Range(UrlsOf(articles))

\* C4: when the send of an article raises, the article's url is in the ledger
\* when the processing of that article ends.
C4_RecordedWhenSendFails ==
    [][ SendFails => posted_col'[articles[ai].url] > 0 ]_vars

\* C5: when the send of a candidate raises and the feed has later candidates,
\* the worker stays in that feed and goes on with them.
C5_LaterCandidatesProcessed ==
    [][ (SendFails /\ ai < Len(articles)) => fi' = fi ]_vars

\* C6: every article with a title that reaches its ledger insert had exactly
\* one payload delivered, also when downloads failed.
C6_OnePayloadDespiteDownloadFailure ==
    pc = "record" => SentInArticle = 1

\* C7: the processing of one article delivers at most one payload; when it
\* reaches the ledger insert, an article whose video downloaded has exactly one
\* video payload, an article with no video url and a downloaded image exactly
\* one media group, an article with no video url and no image exactly one text.
C7_ShapeSelection ==
    /\ pc \in InArticle => SentInArticle \in {0, 1}
    /\ pc = "record" =>
          /\ (video_url /\ vid_data) =>
                SentInArticle = 1 /\ sent[Len(sent)].shape = "video"
          /\ (~video_url /\ images # << >>) =>
                SentInArticle = 1 /\ sent[Len(sent)].shape = "group"
          /\ (~video_url /\ image_urls = << >>) =>
                SentInArticle = 1 /\ sent[Len(sent)].shape = "text"
          /\ SentInArticle = 1 => sent[Len(sent)].url = articles[ai].url

\* C7 witness: a video payload was delivered for one article and a media
\* group for the next one, which is at its ledger insert.
C7_Witness ==
    /\ pc = "record"
    /\ ~video_url /\ images # << >>
    /\ Len(sent) = 2
    /\ sent[1].shape = "video"
    /\ sent[2].shape = "group"

\* C8: every delivered media group carries the caption on its first item and
\* on no other item.
C8_CaptionOnFirstItem ==
    \A i \in DOMAIN sent :
        sent[i].shape = "group" =>
            /\ sent[i].caps[1]
            /\ \A j \in 2..Len(sent[i].caps) : ~sent[i].caps[j]

\* C9: at most one pass is in progress; a pass starts only when none is in
\* progress and the worker is at the top of its loop (the sleep is over); a
\* command handler neither starts nor moves a pass.
C9_SingleWorker ==
    [][ /\ active' <= 1
        /\ passNo' # passNo => (active = 0 /\ pc # "sleep" /\ fi = 0)
        /\ cmds' # cmds => UNCHANGED << pc, active, passNo, fi, ai >> ]_vars

\* C9 witness: the second pass is in progress after a command was handled.
C9_Witness ==
    /\ passNo = 2
    /\ active = 1
    /\ pc = "send_text"
    /\ cmds = 1

\* C10: the payloads delivered for the feed in progress are in the order of
\* the feed document's entries; a pass takes the feeds in the order of the
\* registry; within a pass the worker only moves on to later feeds and,
\* within a feed, to later candidates, and delivers the candidate it is at.
C10_DeliveryOrder ==
    /\ [](pc \in InFeed => IsSubseq(UrlsOf(SentInFeed), feed_data))
    /\ [][ /\ passNo' # passNo => feeds' = feeds_col
           /\ (passNo' = passNo /\ fi' # 0) =>
                 (fi' >= fi /\ (fi' = fi => ai' >= ai))
           /\ Delivers => sent'[Len(sent')].url = articles[ai].url ]_vars

\* C10 witness: two different articles of one feed were delivered in the
\* order the document lists them.
C10_Witness ==
    /\ pc = "record"
    /\ ai = 2
    /\ Len(SentInFeed) = 2
    /\ sent[feedMark + 1].url # sent[feedMark + 2].url

\* C11: no failure inside a pass ends the worker task: after a failed fetch,
\* download, send or store call the worker still reaches its sleep and the top
\* of its loop.
C11_SchedulerSurvives ==
    pc # "dead"

\* C12: a feed whose fetch failed yields no candidates; no feed is fetched
\* twice in one pass; after the failure the worker moves to the next feed of
\* the same snapshot and leaves the registry as it is; a pass ends only when
\* every feed of its snapshot was fetched; and the next pass reads the
\* registry again, so it fetches the feed again.
C12_FetchFailureSoft ==
    /\ [](pc \in InFeed /\ ~fetch_ok => articles = << >>)
    /\ [](\A i, j \in DOMAIN fetches : fetches[i] = fetches[j] => i = j)
    /\ [][ /\ (pc = "article" /\ ~fetch_ok /\ pc' # "loop") =>
                 /\ pc' = "feed"
                 /\ fi' = fi + 1
                 /\ UNCHANGED << feeds, feeds_col >>
           /\ (pc = "feed" /\ pc' = "sleep") => fetches = [i \in 1..Len(feeds) |-> i]
           /\ passNo' # passNo => (feeds' = feeds_col /\ fetches' = << >>) ]_vars

\* C12 witness: the fetch of the first feed of a pass failed and the snapshot
\* holds further feeds.
C12_Witness ==
    /\ pc = "article"
    /\ ~fetch_ok
    /\ fi = 1
    /\ Len(feeds) > 1

\* C13: the ledger holds at most one record per article url, so an insert of
\* a url that is already recorded leaves the ledger as it is.
C13_OneRecordPerUrl ==
    \A u \in Urls : posted_col[u] <= 1

Returned(fn) == call.fn = fn /\ call.returned

NoDuplicates(q) == \A i, j \in DOMAIN q : q[i] = q[j] => i = j

IsAbsolute(url) == Take(url, 4) = << "h", "t", "t", "p" >>

\* C14: the image list that scrape_article returns holds absolute urls only,
\* holds no url twice and has at most three entries.
C14_ImagesDistinctAbsoluteCapped ==
    Returned("scrape_article") =>
        /\ NoDuplicates(call.ret.main_images)
        /\ Len(call.ret.main_images) <= MaxImages
        /\ \A i \in DOMAIN call.ret.main_images : IsAbsolute(call.ret.main_images[i])

\* C15: the summary that scrape_article keeps is at most SummaryCap characters
\* long, the appended ellipsis included.
C15_SummaryWithinCap ==
    Returned("cap_summary") => Len(call.ret) <= SummaryCap

\* C16: an article page answered with a status other than 200 gives no title,
\* so the article is skipped.
C16_NonSuccessStatusGivesNoTitle ==
    (Returned("scrape_article") /\ ~call.arg.raises /\ call.arg.status # 200) =>
        call.ret.title \in {None, ""}

\* C17: the candidates that fetch_newsonair_articles returns hold no url twice
\* and are at most NewsOnAirCap.
C17_ScrapeModeDistinctCapped ==
    Returned("fetch_newsonair_articles") =>
        /\ NoDuplicates(UrlsOf(call.ret))
        /\ Len(call.ret) <= NewsOnAirCap

\* C18: a candidate whose page gives no title is skipped with nothing
\* delivered and nothing recorded, so it is a candidate again in later passes;
\* and the processing of a candidate whose page gave a title ends with one
\* payload delivered and the url recorded.
C18_NoTitleRetriedUntilDispatched ==
    [][ /\ (pc = "article" /\ pc' = "article" /\ ai' = ai + 1) =>
              UNCHANGED << sent, posted_col >>
        /\ (pc \in InArticle /\ pc' \in {"article", "feed"}) =>
              /\ Len(sent') = artMark + 1
              /\ posted_col'[articles[ai].url] > 0 ]_vars

SourceName(feed) == IF IsNewsOnAir(feed.url) THEN NewsOnAirName ELSE feed.name

\* C19: while a pass is in progress its list of feeds does not change, whatever
\* commands are handled; every fetch of the pass is for the feed at the
\* worker's index in that list; the pass ends only past the last feed of that
\* list; and a command changes neither the list nor the worker's position.
C19_PassSnapshot ==
    [][ /\ (passNo' = passNo /\ fi # 0 /\ fi' # 0) => feeds' = feeds
        /\ (pc = "feed" /\ pc' = "article") =>
              /\ fi <= Len(feeds)
              /\ \A i \in DOMAIN articles' :
                    articles'[i].source_name = SourceName(feeds[fi])
        /\ (pc = "feed" /\ pc' = "sleep") => fi = Len(feeds) + 1
        /\ cmds' # cmds => UNCHANGED << feeds, fi, articles, ai >> ]_vars

\* C19 witness: the feed in progress was removed from the registry during
\* the pass, and a payload of one of its articles was delivered.
C19_Witness ==
    /\ pc = "record"
    /\ fi = 2
    /\ ~HasFeed(feeds_col, feeds[fi].url)
    /\ SentInArticle = 1

\* C20: a candidate of the feed in progress whose url is in the ledger was
\* recorded by this feed's own processing, never by an earlier feed: a url
\* that an earlier feed recorded is left out of the later feed's candidates.
\* So a delivery is for the candidate the worker is at, under the name of the
\* feed in progress, and never for a url that an earlier feed recorded.
C20_CrossFeedDedup ==
    /\ [](pc \in InFeed =>
             \A i \in DOMAIN articles :
                /\ articles[i].source_name = SourceName(feeds[fi])
                /\ Posted(articles[i].url) =>
                      \E j \in 1..(ai - 1) : articles[j].url = articles[i].url)
    /\ [][ Delivers =>
              /\ sent'[Len(sent')].url = articles[ai].url
              /\ Posted(articles[ai].url) =>
                    \E j \in 1..(ai - 1) : articles[j].url = articles[ai].url ]_vars

\* C20 witness: the second feed of a pass lists a url that the first feed of
\* the same pass delivered and recorded, and its candidates leave it out.
C20_Witness ==
    /\ pc = "article"
    /\ fi = 2
    /\ ai = 1
    /\ \E u \in Urls :
          /\ u \in Range(feed_data)
          /\ Posted(u)
          /\ u \notin passLedger
          /\ Deliveries(u) # {}
          /\ u \notin Range(UrlsOf(articles))

====
